---- MODULE Spec2Model ----
(***************************************************************************)
(* osc-booper: the OSC event loop (src/osc.rs), its counter storage        *)
(* (src/storage.rs), the suffix rules (src/config.rs), the chatbox         *)
(* clearing loop with its spawned clear tasks, and the mDNS responder      *)
(* task (src/oscquery/mdns.rs) as far as start-up and shutdown go.         *)
(*                                                                         *)
(* Time is kept as ages: every timestamp the program stores is modelled by *)
(* the number of seconds elapsed since it was taken, saturating just above *)
(* the largest value it is ever compared with.                             *)
(***************************************************************************)
EXTENDS Integers, Sequences, FiniteSets, TLC

(* ------------------------------ bounds -------------------------------- *)

\* activity events counted in one run
MaxBoops == 2
\* one-second steps are taken while the last save is younger than this;
\* past it time advances by an idle period of SaveInterval seconds
MaxFineAge == 3
\* midnights that pass during one run
MaxDays == 1
\* rules in a configured rule list
MaxRules == 2
\* questions and answer records in an mDNS datagram
MaxQuestions == 2
MaxAnswers == 3
\* calls of Message::read counted for one datagram
MaxReads == 6
\* connection handles counted as accepted and never drained
MaxUndrained == 1
\* largest count looked up in a configured rule list
MaxCount == 120

(* -------------------------- program constants ------------------------- *)

\* cooldown between chatbox messages, seconds
Cooldown == 2
\* delay before the chatbox is cleared, seconds
ClearDelay == 4
\* periodic save interval, seconds (5 minutes)
SaveInterval == 300
\* capacity of the channel to the clearing loop
ChannelCapacity == 32

Saturate(x, cap) == IF x > cap THEN cap ELSE x

CountDown(x, d) == IF x > d THEN x - d ELSE 0

(* ------------------------ config.rs: suffix rules ---------------------- *)

RECURSIVE Ilog10(_)
\* u64::ilog10, for value > 0
Ilog10(value) == IF value < 10 THEN 0 ELSE 1 + Ilog10(value \div 10)

CalculateDivisor(value) == 10 ^ (Ilog10(value) + 1)

TextSuffix(value, message) ==
    [value |-> value, message |-> message, divisor |-> CalculateDivisor(value)]

\* calculate_divisor on any u64: ilog10 panics on 0
DivisorOf(value) ==
    IF value = 0
    THEN [kind |-> "panic", divisor |-> 0]
    ELSE [kind |-> "ok", divisor |-> CalculateDivisor(value)]

\* the ways a rule is built: TextSuffix::new and Deserialize for TextSuffix
RuleSources == {"new", "deserialize"}

NoRule == [source |-> "none", value |-> 0, message |-> "", kind |-> "none", divisor |-> 0]

\* the rule either way builds from value and message: both take the divisor
\* from calculate_divisor
BuildTextSuffix(source, value, message) ==
    LET d == DivisorOf(value)
    IN  [source |-> source, value |-> value, message |-> message,
         kind |-> d.kind, divisor |-> d.divisor]

default_text_suffixes ==
    << TextSuffix(69, "Nice"),
       TextSuffix(420, "Blaze it"),
       TextSuffix(621, "owo"),
       TextSuffix(666, "ooOooO scary"),
       TextSuffix(1337, "much leet so wow") >>

VARIABLE
    text_suffixes  \* Options.text_suffixes, sorted by deserialize_text_suffixes

\* a variant that stops the scan at a threshold equal to the count
CheckValueBreakAtEqual(rule, value) ==
    IF value <= rule.value
    THEN [kind |-> "Break", message |-> ""]
    ELSE IF value % rule.divisor = rule.value
         THEN [kind |-> "Message", message |-> rule.message]
         ELSE [kind |-> "Skip", message |-> ""]

CheckValue(rule, value) ==
    IF value < rule.value
    THEN [kind |-> "Break", message |-> ""]
    ELSE IF value % rule.divisor = rule.value
         THEN [kind |-> "Message", message |-> rule.message]
         ELSE [kind |-> "Skip", message |-> ""]

NoSuffix == [some |-> FALSE, text |-> ""]

RECURSIVE ScanTextSuffixes(_, _)
ScanTextSuffixes(i, number) ==
    IF i > Len(text_suffixes)
    THEN NoSuffix
    ELSE LET r == CheckValue(text_suffixes[i], number)
         IN  IF r.kind = "Break" THEN NoSuffix
             ELSE IF r.kind = "Skip" THEN ScanTextSuffixes(i + 1, number)
             ELSE [some |-> TRUE, text |-> r.message]

GenerateTextSuffix(number) == ScanTextSuffixes(1, number)

\* map_or("", |suffix| format!(" {suffix}")): the text as a list of pieces
SuffixText(found) == IF found.some THEN <<" ", found.text>> ELSE <<>>

\* a variant that asks for a suffix on both lines
IsSuffixedOnBothLines(today_suffix, total_suffix) ==
    today_suffix # <<>> /\ total_suffix # <<>>

IsSuffixed(today_suffix, total_suffix) == today_suffix # <<>> \/ total_suffix # <<>>

\* the chatbox text "Today: {}{}\nTotal: {}{}" as its four arguments
GenerateMessage(s) ==
    LET today_suffix == SuffixText(GenerateTextSuffix(s.today_boops))
        total_suffix == SuffixText(GenerateTextSuffix(s.total_boops))
    IN  [today |-> s.today_boops, today_suffix |-> today_suffix,
         total |-> s.total_boops, total_suffix |-> total_suffix,
         is_suffixed |-> IsSuffixed(today_suffix, total_suffix)]

NoMessage ==
    [today |-> 0, today_suffix |-> <<>>, total |-> 0, total_suffix |-> <<>>,
     is_suffixed |-> FALSE]

(* ------------------------------- state -------------------------------- *)

VARIABLES
    storage,       \* BoopStorage: counters, last_reset (a date), last_save (an age)
    file,          \* contents of boops.toml
    last_write,    \* result of the latest fs::write of boops.toml
    date,          \* the current civil date
    evPc,          \* where OscBooper::run is: "recv", "publish", "notify", "done"
    pending,       \* the chatbox message send_message is sending
    last_message,  \* OscBooper.last_message, as an age
    clear_tx,      \* number of () signals queued in the clear channel
    cancelled,     \* the CancellationToken
    exited,        \* main has returned and the runtime is shut down
    task,          \* the clear task whose JoinHandle the clearing loop holds
    orphans,       \* clear tasks aborted while being polled, by generation
    mdnsPc,        \* where MdnsServer::run is: "recv", "spin", "send", "stopped"
    mq,            \* the datagram handle_query was last called with
    parse,         \* the parse loop of that call: calls of Message::read, buffers
    qi,            \* the question whose reply is being sent
    replies,       \* the replies handed to send_to for that datagram
    undrained,     \* connection handles handle_query returned without draining
    oscjson,       \* the OSCQuery HTTP server: "serving" or "stopped"
    counted,       \* activity events counted by inc_boops
    outcome,       \* the branch the listener loop took for the latest datagram
    n_pub,         \* calls of publish_chatbox made by send_message
    pub_result,    \* result of the latest of them
    close_pair,    \* the latest two chatbox messages went out less than ClearDelay apart
    n_clear,       \* chatbox clears on the wire since the latest publish
    clear_tried,   \* a clear task has called publish_chatbox since the latest publish
    early_clear,   \* a clear went on the wire less than ClearDelay after the latest message
    stale_clear,   \* a clear went on the wire from a task armed before the latest message
    number,        \* the count generate_text_suffix was last called with
    found,         \* what that call returned
    built          \* the rule last built from a configured value and text

world_vars == <<storage, file, last_write>>

loop_vars == <<evPc, pending, last_message, clear_tx>>

task_vars == <<task, orphans>>

obs_vars == <<counted, outcome>>

wire_vars == <<n_pub, pub_result, close_pair, n_clear, clear_tried, early_clear,
              stale_clear>>

query_vars == <<mq, parse, qi, replies, undrained>>

mdns_vars == <<mdnsPc, mq, parse, qi, replies, undrained>>

lookup_vars == <<text_suffixes, number, found, built>>

vars == <<storage, file, last_write, date, evPc, pending, last_message, clear_tx,
          cancelled, exited, task, orphans, mdnsPc, counted, outcome,
          n_pub, pub_result, close_pair, n_clear, clear_tried, early_clear,
          stale_clear, text_suffixes, number, found, built, mq, parse, qi, replies,
          undrained, oscjson>>

\* saturation points of the ages
LastMessageCap == ClearDelay

LastSaveCap == SaveInterval + 1

(* ----------------------------- storage.rs ------------------------------ *)

\* the first date of a run; a loaded file may hold an earlier one
StartDate == 1

BoopStorageDefault ==
    [total_boops |-> 0, today_boops |-> 0, today_boops_record |-> 0,
     yesterday_boops |-> 0, last_reset |-> StartDate, last_save |-> 0]

\* what serde writes: last_save is #[serde(skip)]
Serialize(s) ==
    [present |-> TRUE, total_boops |-> s.total_boops, today_boops |-> s.today_boops,
     today_boops_record |-> s.today_boops_record,
     yesterday_boops |-> s.yesterday_boops, last_reset |-> s.last_reset]

NoFile ==
    [present |-> FALSE, total_boops |-> 0, today_boops |-> 0,
     today_boops_record |-> 0, yesterday_boops |-> 0, last_reset |-> StartDate]

\* boops.toml files a run may start from
StartFiles ==
    { NoFile,
      [present |-> TRUE, total_boops |-> 68, today_boops |-> 7,
       today_boops_record |-> 9, yesterday_boops |-> 3, last_reset |-> StartDate],
      [present |-> TRUE, total_boops |-> 417, today_boops |-> 7,
       today_boops_record |-> 9, yesterday_boops |-> 3, last_reset |-> StartDate - 1] }

\* BoopStorage::load: the skipped last_save deserializes to Timestamp::default(),
\* the Unix epoch, which is older than any interval
Load(f) ==
    IF f.present
    THEN [total_boops |-> f.total_boops, today_boops |-> f.today_boops,
          today_boops_record |-> f.today_boops_record,
          yesterday_boops |-> f.yesterday_boops, last_reset |-> f.last_reset,
          last_save |-> LastSaveCap]
    ELSE BoopStorageDefault

\* BoopStorage::save on the world w = [storage, file, last_write];
\* ok is whether fs::write succeeds
Save(w, ok) ==
    IF ok
    THEN [storage |-> [w.storage EXCEPT !.last_save = 0],
          file |-> Serialize(w.storage), last_write |-> "ok"]
    ELSE [w EXCEPT !.last_write = "failed"]

TimeToSave(s) == s.last_save > SaveInterval

TimeIsPastMidnight(last_reset, time) == time # last_reset

\* a variant that keeps the count of the day over the reset
CheckResetKeepsToday(w, ok) ==
    IF TimeIsPastMidnight(w.storage.last_reset, date)
    THEN Save([w EXCEPT !.storage.yesterday_boops = w.storage.today_boops,
                        !.storage.last_reset = date], ok)
    ELSE w

\* check_reset, with Zoned::now() on the date date
CheckReset(w, ok) ==
    IF TimeIsPastMidnight(w.storage.last_reset, date)
    THEN Save([w EXCEPT !.storage.yesterday_boops = w.storage.today_boops,
                        !.storage.today_boops = 0,
                        !.storage.last_reset = date], ok)
    ELSE w

\* a variant that counts an event twice
IncBoopsTwice(w, ok1, ok2) ==
    LET a == CheckReset(w, ok1)
    IN  [a EXCEPT !.storage.today_boops = a.storage.today_boops + 2,
                  !.storage.total_boops = a.storage.total_boops + 2]

IncBoops(w, ok1, ok2) ==
    LET a == CheckReset(w, ok1)
        b == [a EXCEPT !.storage.today_boops = a.storage.today_boops + 1,
                       !.storage.total_boops = a.storage.total_boops + 1]
        c == IF b.storage.today_boops > b.storage.today_boops_record
             THEN [b EXCEPT !.storage.today_boops_record = b.storage.today_boops]
             ELSE b
    IN  IF TimeToSave(c.storage) THEN Save(c, ok2) ELSE c

World == [storage |-> storage, file |-> file, last_write |-> last_write]

SetWorld(w) ==
    /\ storage' = w.storage
    /\ file' = w.file
    /\ last_write' = w.last_write

(* ------------------------ osc.rs: the event loop ----------------------- *)

\* OSC addresses, as lists of their pieces
AvatarChange == <<"/", "avatar", "/", "change">>

BoopParameter == <<"/", "avatar", "/", "parameters", "/", "OSCBoop">>

OtherParameter == <<"/", "avatar", "/", "parameters", "/", "Viseme">>

\* Options.boop_address, default "/OSCBoop"
boop_address == <<"/", "OSCBoop">>

OscBoolFalse == "Bool(false)"

OscBoolTrue == "Bool(true)"

Addresses == {BoopParameter, AvatarChange, OtherParameter}

ArgLists == {<<>>, <<OscBoolFalse>>, <<OscBoolTrue>>}

\* what recv_from and decode_udp can hand to the listener loop
Datagrams ==
    {[kind |-> "undecodable", addr |-> <<>>, args |-> <<>>],
     [kind |-> "bundle", addr |-> <<>>, args |-> <<>>]}
    \cup [kind : {"message"}, addr : Addresses, args : ArgLists]

EndsWith(s, suffix) ==
    /\ Len(suffix) <= Len(s)
    /\ SubSeq(s, Len(s) - Len(suffix) + 1, Len(s)) = suffix

\* a variant that opens the gate at the cooldown itself
ShouldSendMessageAtCooldown == last_message >= Cooldown

\* Timestamp::now() > last_message + 2 s
ShouldSendMessage == last_message > Cooldown

\* a variant that saves whether or not it is time
SaveAlways(w, ok) == Save(w, ok)

\* the check that ends handle_message
SaveIfTime(w, ok) == IF TimeToSave(w.storage) THEN Save(w, ok) ELSE w

\* handle_message up to the call of send_message: the world it leaves, the
\* branch taken, and the message to send when the branch is "send"
HandleMessage(message, w, ok1, ok2) ==
    IF EndsWith(message.addr, boop_address) /\ message.args # <<>>
    THEN IF message.args[1] = OscBoolFalse
         THEN [w |-> w, outcome |-> "left", message |-> NoMessage]
         ELSE LET incremented == IncBoops(w, ok1, ok2)
                  generated == GenerateMessage(incremented.storage)
              IN  IF ~generated.is_suffixed /\ ~ShouldSendMessage
                  THEN [w |-> incremented, outcome |-> "absorbed", message |-> NoMessage]
                  ELSE [w |-> incremented, outcome |-> "send", message |-> generated]
    ELSE IF message.addr = AvatarChange
         THEN IF message.args = <<>>
              THEN [w |-> w, outcome |-> "avatar_noargs", message |-> NoMessage]
              ELSE [w |-> SaveIfTime(Save(w, ok1), ok2), outcome |-> "avatar",
                    message |-> NoMessage]
         ELSE [w |-> SaveIfTime(w, ok1), outcome |-> "ignored", message |-> NoMessage]

\* a variant that hands what decode_udp rejected on to handle_message
HandlePacketUndecoded(pkt, w, ok1, ok2) ==
    IF pkt.kind = "bundle"
    THEN [w |-> w, outcome |-> "bundle", message |-> NoMessage]
    ELSE HandleMessage(pkt, w, ok1, ok2)

\* one iteration of listener_loop for a datagram that was received
HandlePacket(pkt, w, ok1, ok2) ==
    IF pkt.kind = "undecodable"
    THEN [w |-> w, outcome |-> "decode_error", message |-> NoMessage]
    ELSE IF pkt.kind = "bundle"
         THEN [w |-> w, outcome |-> "bundle", message |-> NoMessage]
         ELSE HandleMessage(pkt, w, ok1, ok2)

\* listener_loop: recv_from returns a datagram
ListenerRecv(pkt, ok1, ok2) ==
    /\ evPc = "recv"
    /\ LET r == HandlePacket(pkt, World, ok1, ok2)
           n == IF r.outcome \in {"absorbed", "send"} THEN 1 ELSE 0
       IN  /\ counted + n <= MaxBoops
           /\ counted' = counted + n
           /\ SetWorld(r.w)
           /\ outcome' = r.outcome
           /\ pending' = r.message
           /\ evPc' = IF r.outcome = "send" THEN "publish" ELSE "recv"
    /\ UNCHANGED <<date, last_message, clear_tx, cancelled, exited, task_vars,
                   mdns_vars, lookup_vars, oscjson, wire_vars>>

\* where the listener loop is after recv_from returned an error
AfterRecvError == "recv"

\* listener_loop: recv_from returns an error
ListenerRecvError ==
    /\ evPc = "recv"
    /\ evPc' = AfterRecvError
    /\ outcome' = "recv_error"
    /\ UNCHANGED <<world_vars, date, pending, last_message, clear_tx, cancelled,
                   exited, task_vars, mdns_vars, lookup_vars, oscjson, counted, wire_vars>>

PublishResults == {"sent", "send_failed", "encode_failed"}

\* the latest call of publish_chatbox by send_message put a message on the
\* wire, less than d seconds ago (last_message is the time of that call)
SentWithin(d) == pub_result = "sent" /\ last_message < d

\* send_message: publish_chatbox returns, then last_message = Timestamp::now()
Publish(res) ==
    /\ evPc = "publish"
    /\ evPc' = "notify"
    /\ last_message' = 0
    /\ n_pub' = n_pub + 1
    /\ pub_result' = res
    /\ n_clear' = 0
    /\ clear_tried' = FALSE
    /\ close_pair' = (res = "sent" /\ SentWithin(ClearDelay))
    /\ UNCHANGED <<world_vars, date, pending, clear_tx, cancelled, exited,
                   task_vars, mdns_vars, lookup_vars, oscjson, obs_vars, early_clear, stale_clear>>

\* send_message: tx.send(()) completes; handle_message then ends with the
\* periodic save check and the listener loop goes back to recv_from
Notify(ok) ==
    /\ evPc = "notify"
    /\ clear_tx < ChannelCapacity
    /\ clear_tx' = clear_tx + 1
    /\ SetWorld(SaveIfTime(World, ok))
    /\ pending' = NoMessage
    /\ evPc' = "recv"
    /\ UNCHANGED <<date, last_message, cancelled, exited, task_vars, mdns_vars, lookup_vars, oscjson,
                   obs_vars, wire_vars>>

\* the signal handler task cancels the token
Cancel ==
    /\ ~cancelled
    /\ ~exited
    /\ cancelled' = TRUE
    /\ UNCHANGED <<world_vars, date, loop_vars, exited, task_vars, mdns_vars, lookup_vars, oscjson,
                   obs_vars, wire_vars>>

\* a variant in which the other branches of select! run only while
\* listener_loop waits in recv_from
AtAwaitRecvOnly == evPc = "recv"

\* the awaits of listener_loop, at which select! polls its other branches:
\* the clearing loop runs, and the cancelled() branch can be taken
AtAwait == evPc \in {"recv", "publish", "notify"}

\* a variant of run that returns without the save
FinalSaveSkipped(w, ok) == w

\* what run does after select! returns
FinalSave(w, ok) == Save(w, ok)

\* run: select! takes the cancelled() branch, dropping listener_loop and the
\* clearing loop where they wait, then the final save
Stop(ok) ==
    /\ cancelled
    /\ AtAwait
    /\ SetWorld(FinalSave(World, ok))
    /\ evPc' = "done"
    /\ UNCHANGED <<date, pending, last_message, clear_tx, cancelled, exited,
                   task_vars, mdns_vars, lookup_vars, oscjson, obs_vars, wire_vars>>

(* ------------------ osc.rs: the chatbox clearing loop ------------------ *)

NoTask == [st |-> "none", rem |-> 0, gen |-> 0]

\* JoinHandle::abort on the task the loop holds: a task that waits in its
\* sleep never runs again; a task that is being polled on a worker thread
\* goes on until it next yields or completes
AbortedRunning(t) == IF t.st = "run" THEN {t.gen} ELSE {}

\* a variant that aborts the held task and spawns none
SpawnClearNone(t) == [st |-> "none", rem |-> 0, gen |-> t.gen + 1]

\* the task spawned for the signal just taken; gen is the number of that signal
SpawnClear(t) == [st |-> "sleep", rem |-> ClearDelay, gen |-> t.gen + 1]

\* clear_chatbox_loop: rx.recv() returns a signal; the held task is aborted
\* and a new one is spawned
Debounce ==
    /\ AtAwait
    /\ clear_tx > 0
    /\ clear_tx' = clear_tx - 1
    /\ orphans' = orphans \cup AbortedRunning(task)
    /\ task' = SpawnClear(task)
    /\ UNCHANGED <<world_vars, date, evPc, pending, last_message, cancelled,
                   exited, mdns_vars, lookup_vars, oscjson, obs_vars, wire_vars>>

\* a clear task: its sleep has elapsed and a worker thread polls it
TaskWake ==
    /\ task.st = "sleep"
    /\ task.rem = 0
    /\ task' = [task EXCEPT !.st = "run"]
    /\ UNCHANGED <<world_vars, date, loop_vars, cancelled, exited, orphans,
                   mdns_vars, lookup_vars, oscjson, obs_vars, wire_vars>>

\* a clear is newer messages' wipe when its task was armed before the latest
\* message that went on the wire
IsStale(gen) == gen < n_pub /\ pub_result = "sent"

\* publish_chatbox(socket, addr, "") of the clear task armed by signal gen
ClearPublished(gen, res) ==
    /\ clear_tried' = TRUE
    /\ IF res = "sent"
       THEN /\ n_clear' = n_clear + 1
            /\ early_clear' = (early_clear \/ SentWithin(ClearDelay))
            /\ stale_clear' = (stale_clear \/ IsStale(gen))
       ELSE UNCHANGED <<n_clear, early_clear, stale_clear>>
    /\ UNCHANGED <<n_pub, pub_result, close_pair>>

\* the held clear task publishes the empty message and ends
TaskSend(res) ==
    /\ task.st = "run"
    /\ task' = [task EXCEPT !.st = "done"]
    /\ ClearPublished(task.gen, res)
    /\ UNCHANGED <<world_vars, date, loop_vars, cancelled, exited, orphans,
                   mdns_vars, lookup_vars, oscjson, obs_vars>>

\* a task aborted while being polled completes its poll: the clear is published
OrphanSend(gen, res) ==
    /\ gen \in orphans
    /\ orphans' = orphans \ {gen}
    /\ ClearPublished(gen, res)
    /\ UNCHANGED <<world_vars, date, loop_vars, cancelled, exited, task,
                   mdns_vars, lookup_vars, oscjson, obs_vars>>

\* a task aborted while being polled yields in send_to and is dropped there
OrphanDrop(gen) ==
    /\ gen \in orphans
    /\ orphans' = orphans \ {gen}
    /\ UNCHANGED <<world_vars, date, loop_vars, cancelled, exited, task,
                   mdns_vars, lookup_vars, oscjson, obs_vars, wire_vars>>

(* ------------------- oscquery/mdns.rs: the responder ------------------- *)

\* MdnsServer::run loop: a datagram is received and handle_query runs. A
\* datagram Message::read rejects for another reason than buffer space
\* keeps the parse loop of handle_query retrying it
MdnsRecv(kind) ==
    /\ mdnsPc = "recv"
    /\ mdnsPc' = IF kind = "unparseable" THEN "spin" ELSE "recv"
    /\ UNCHANGED <<world_vars, date, loop_vars, cancelled, exited, task_vars,
                   obs_vars, wire_vars, lookup_vars, oscjson, query_vars>>

\* names a question can ask for: the service type, the host of this instance,
\* and a name of another service
ServiceType == "_oscjson._tcp.local"

InstanceHost == "osc-booper-x.oscjson.tcp.local."

OtherService == "_other._tcp.local"

QuestionNames == {ServiceType, InstanceHost, OtherService}

\* create_records: the records known_records holds, by their type
known_records ==
    [name \in {ServiceType, InstanceHost} |->
        IF name = ServiceType THEN <<"PTR", "TXT", "SRV", "A">> ELSE <<"A">>]

\* values known_records can have: the one create_records builds, one with an
\* entry of three records and one with an entry without records
RecordStores ==
    {known_records,
     [name \in {ServiceType} |-> <<"PTR", "SRV", "TXT">>],
     [name \in {ServiceType, InstanceHost} |->
         IF name = ServiceType THEN <<"PTR", "A">> ELSE <<>>]}

\* BufferType, in the order of the sections on the wire
BufferTypes == <<"Question", "Answer", "Authority", "Additional">>

\* the buffers handle_query starts with
InitialCaps == [Question |-> 4, Answer |-> 1, Authority |-> 0, Additional |-> 0]

\* records a datagram holds in a section
SectionCount(data, section) ==
    IF section = "Question" THEN Len(data.questions)
    ELSE IF section = "Answer" THEN data.an
    ELSE IF section = "Authority" THEN data.ns
    ELSE data.ar

\* Message::read on the bytes of data with buffers of the sizes caps: a parse
\* error, or the first section whose buffer is smaller than the number of
\* records present with that number, or the message
MessageRead(data, caps) ==
    IF data.kind = "malformed"
    THEN [kind |-> "error", section |-> "", tried_to_write |-> 0]
    ELSE LET short == {i \in 1..4 :
                          caps[BufferTypes[i]] < SectionCount(data, BufferTypes[i])}
         IN  IF short = {}
             THEN [kind |-> "ok", section |-> "", tried_to_write |-> 0]
             ELSE LET i == CHOOSE k \in short : \A j \in short : k <= j
                  IN  [kind |-> "space", section |-> BufferTypes[i],
                       tried_to_write |-> SectionCount(data, BufferTypes[i])]

\* a variant that grows the buffer by one slot
ResizeByOne(caps, section, tried_to_write) ==
    [caps EXCEPT ![section] = caps[section] + 1]

\* the NotEnoughWriteSpace arm: resize(tried_to_write) of the reported buffer
Resize(caps, section, tried_to_write) == [caps EXCEPT ![section] = tried_to_write]

RECURSIVE ParseLoop(_, _, _)
\* the parse loop of handle_query up to the first result that is not a lack
\* of buffer space; reads counts the calls of Message::read
ParseLoop(data, caps, reads) ==
    LET r == MessageRead(data, caps)
    IN  IF r.kind = "space"
        THEN ParseLoop(data, Resize(caps, r.section, r.tried_to_write), reads + 1)
        ELSE [result |-> r.kind, caps |-> caps, reads |-> reads + 1]

NoQuery ==
    [kind |-> "none", questions |-> <<>>, an |-> 0, ns |-> 0, ar |-> 0, accepted |-> FALSE]

NoParse == [result |-> "none", caps |-> InitialCaps, reads |-> 0]

NoReply == [some |-> FALSE, answers |-> <<>>, additional |-> <<>>]

\* SlabEndpoint::response for a query handle: fails for a handle that is not
\* live; handle_query passes the handle endpoint.recv has just returned
EndpointResponse(live) == live

\* a variant that answers a name without entry with a reply without records
LookupAnswerUnknownName(store, name, responded) ==
    IF name \notin DOMAIN store
    THEN [some |-> TRUE, answers |-> <<>>, additional |-> <<>>]
    ELSE IF store[name] = <<>> \/ ~responded
         THEN NoReply
         ELSE [some |-> TRUE, answers |-> <<store[name][1]>>,
               additional |-> SubSeq(store[name], 2, Len(store[name]))]

\* a variant that puts every record of the entry into the answer section
LookupAnswerAllAnswers(store, name, responded) ==
    IF name \notin DOMAIN store
    THEN NoReply
    ELSE IF store[name] = <<>> \/ ~responded
         THEN NoReply
         ELSE [some |-> TRUE, answers |-> store[name], additional |-> <<>>]

\* lookup_answer up to Message::new: the sections of the reply
LookupAnswer(store, name, responded) ==
    IF name \notin DOMAIN store
    THEN NoReply
    ELSE IF store[name] = <<>>
         THEN NoReply
         ELSE IF ~responded
              THEN NoReply
              ELSE IF Len(store[name]) = 1
                   THEN [some |-> TRUE, answers |-> <<store[name][1]>>,
                         additional |-> <<>>]
                   ELSE [some |-> TRUE, answers |-> <<store[name][1]>>,
                         additional |-> SubSeq(store[name], 2, Len(store[name]))]

\* the reply lookup_answer gives for question i of the datagram being handled
ReplyTo(questions, i) ==
    LookupAnswer(known_records, questions[i], EndpointResponse(TRUE))

\* the first question from index from on for which lookup_answer returns a
\* reply, or one past the last question
NextReply(questions, from) ==
    LET them == {i \in from..Len(questions) : ReplyTo(questions, i).some}
    IN  IF them = {} THEN Len(questions) + 1
        ELSE CHOOSE i \in them : \A j \in them : i <= j

\* a variant in which a failed send_to ends the loop over the questions
AfterSendStopOnError(questions, i, ok) ==
    IF ok THEN NextReply(questions, i + 1) ELSE Len(questions) + 1

\* the question the loop goes on with once the send_to of the reply to
\* question i has returned: both arms of the match only log
AfterSend(questions, i, ok) == NextReply(questions, i + 1)

\* where handle_query is once the questions from index next on remain: at
\* the send_to of the next reply, or back in the receive of run
AtQuestion(questions, next) == IF next <= Len(questions) THEN "send" ELSE "recv"

\* MdnsServer::run: a datagram is received; handle_query accepts a connection
\* handle, parses the datagram, hands it to the endpoint and reaches the
\* send_to of its first reply, or returns: without draining the connection
\* handle when endpoint.recv fails, after both drains when no reply is due
HandleQuery(data) ==
    /\ mdnsPc = "recv"
    /\ mq' = data
    /\ replies' = <<>>
    /\ LET p == ParseLoop(data, InitialCaps, 0)
           first == NextReply(data.questions, 1)
       IN  /\ parse' = p
           /\ IF p.result = "error"
              THEN mdnsPc' = "spin" /\ qi' = 0
              ELSE IF ~data.accepted
                   THEN mdnsPc' = "recv" /\ qi' = 0
                   ELSE mdnsPc' = AtQuestion(data.questions, first) /\ qi' = first
           /\ undrained' = IF p.result = "ok" /\ ~data.accepted
                           THEN Saturate(undrained + 1, MaxUndrained)
                           ELSE undrained
    /\ UNCHANGED <<world_vars, date, loop_vars, cancelled, exited, task_vars,
                   obs_vars, wire_vars, lookup_vars, oscjson>>

\* the parse loop after an error that is not a lack of buffer space: the
\* error is logged and Message::read is called again on the same bytes
ParseAgain ==
    /\ mdnsPc = "spin"
    /\ MessageRead(mq, parse.caps).kind = "error"
    /\ parse' = [parse EXCEPT !.reads = Saturate(parse.reads + 1, MaxReads)]
    /\ UNCHANGED <<world_vars, date, loop_vars, cancelled, exited, task_vars,
                   obs_vars, wire_vars, lookup_vars, oscjson, mdnsPc, mq, qi, replies,
                   undrained>>

\* the end of lookup_answer: the buffer it returns once msg.write has written
\* the message into it, or has failed, which is only logged
ReplyBuffer(wrote) == IF wrote THEN "message" ELSE "unwritten"

\* send_to of the reply to question qi returns, ok or not; the loop over the
\* questions goes on to the next reply, or handle_query drains and returns
SendReply(wrote, ok) ==
    /\ mdnsPc = "send"
    /\ replies' = Append(replies, [question |-> qi, name |-> mq.questions[qi],
                                   reply |-> ReplyTo(mq.questions, qi),
                                   buf |-> ReplyBuffer(wrote), sent |-> ok])
    /\ LET next == AfterSend(mq.questions, qi, ok)
       IN  qi' = next /\ mdnsPc' = AtQuestion(mq.questions, next)
    /\ UNCHANGED <<world_vars, date, loop_vars, cancelled, exited, task_vars,
                   obs_vars, wire_vars, lookup_vars, oscjson, mq, parse, undrained>>

\* a variant in which the receive error takes the process down
MdnsRecvErrorAborts ==
    /\ mdnsPc = "recv"
    /\ mdnsPc' = "stopped"
    /\ evPc' = "done"
    /\ exited' = TRUE
    /\ UNCHANGED <<world_vars, date, pending, last_message, clear_tx, cancelled,
                   task_vars, obs_vars, wire_vars, lookup_vars, oscjson, query_vars>>

\* MdnsServer::run loop: recv_from returns an error and the loop breaks; run
\* returns and the task spawned by announce ends
MdnsRecvError ==
    /\ mdnsPc = "recv"
    /\ mdnsPc' = "stopped"
    /\ UNCHANGED <<world_vars, date, loop_vars, cancelled, exited, task_vars,
                   obs_vars, wire_vars, lookup_vars, oscjson, query_vars>>

(* ----------------- oscquery/mod.rs: the OSCQuery server ---------------- *)

\* the task spawned by start_oscjson_server: its sleep of 600 s has ended and
\* it shuts the server down. Nothing else of the program waits for a timer
\* that relates to this one, so the moment is left open
OscjsonShutdown ==
    /\ oscjson = "serving"
    /\ ~exited
    /\ oscjson' = "stopped"
    /\ UNCHANGED <<world_vars, date, loop_vars, cancelled, exited, task_vars,
                   obs_vars, wire_vars, lookup_vars, mdns_vars>>

(* ------------------------- main.rs: the process ------------------------ *)

\* the runtime shuts down: a task waiting at an await is dropped there
DropSleeping(t) == IF t.st = "sleep" THEN [t EXCEPT !.st = "dropped"] ELSE t

\* a variant in which the responder outlives the runtime
DropResponderNever(pc) == pc

DropResponder(pc) == IF pc \in {"recv", "send"} THEN "stopped" ELSE pc

\* run has returned, main returns and the runtime is dropped
Exit ==
    /\ evPc = "done"
    /\ ~exited
    /\ exited' = TRUE
    /\ task' = DropSleeping(task)
    /\ mdnsPc' = DropResponder(mdnsPc)
    /\ oscjson' = "stopped"
    /\ UNCHANGED <<world_vars, date, loop_vars, cancelled, orphans, obs_vars,
                   wire_vars, lookup_vars, query_vars>>

(* -------------------------------- time --------------------------------- *)

FineTime == storage.last_save < MaxFineAge \/ storage.last_save > SaveInterval

\* d seconds pass
Elapse(d) ==
    /\ ~exited
    /\ storage' = [storage EXCEPT !.last_save = Saturate(@ + d, LastSaveCap)]
    /\ last_message' = Saturate(last_message + d, LastMessageCap)
    /\ task' = IF task.st = "sleep" THEN [task EXCEPT !.rem = CountDown(@, d)] ELSE task
    /\ UNCHANGED <<file, last_write, date, evPc, pending, clear_tx, cancelled,
                   exited, orphans, mdns_vars, lookup_vars, oscjson, obs_vars, n_pub, pub_result, close_pair,
                   n_clear, clear_tried, early_clear, stale_clear>>

Tick == FineTime /\ Elapse(1)

Idle == Elapse(SaveInterval)

\* midnight passes
Midnight ==
    /\ ~exited
    /\ date < StartDate + MaxDays
    /\ date' = date + 1
    /\ UNCHANGED <<world_vars, loop_vars, cancelled, exited, task_vars, mdns_vars, lookup_vars, oscjson,
                   obs_vars, wire_vars>>

(* ---------------------------- specification ---------------------------- *)

\* what no event has touched yet after OscBooper::new, MdnsServer::new and
\* the spawns of main
InitRest ==
    /\ last_write = "none"
    /\ date = StartDate
    /\ evPc = "recv"
    /\ pending = NoMessage
    /\ last_message = 0
    /\ cancelled = FALSE
    /\ exited = FALSE
    /\ task = NoTask
    /\ orphans = {}
    /\ mdnsPc = "recv"
    /\ counted = 0
    /\ outcome = "none"
    /\ close_pair = FALSE
    /\ n_clear = 0
    /\ clear_tried = FALSE
    /\ early_clear = FALSE
    /\ stale_clear = FALSE
    /\ number = 0
    /\ found = NoSuffix
    /\ built = NoRule
    /\ mq = NoQuery
    /\ parse = NoParse
    /\ qi = 0
    /\ replies = <<>>
    /\ undrained = 0
    /\ oscjson = "serving"

\* the state after OscBooper::new, MdnsServer::new and the spawns of main
InitRun ==
    /\ InitRest
    /\ file \in StartFiles
    /\ storage = Load(file)
    /\ clear_tx = 0
    /\ n_pub = 0
    /\ pub_result = "none"

\* no config file: Options::default
Init == InitRun /\ text_suffixes = default_text_suffixes

\* the event loop with its storage, while the clock runs
Next ==
    \/ \E pkt \in Datagrams, ok1, ok2 \in BOOLEAN : ListenerRecv(pkt, ok1, ok2)
    \/ ListenerRecvError
    \/ \E res \in PublishResults : Publish(res)
    \/ \E ok \in BOOLEAN : Notify(ok)
    \/ Tick

Spec == Init /\ [][Next]_vars

\* an activity event: "/avatar/parameters/OSCBoop" with argument true
BoopTrue == [kind |-> "message", addr |-> BoopParameter, args |-> <<OscBoolTrue>>]

\* the contact sender leaves the receiver: the parameter with argument false
BoopFalse == [kind |-> "message", addr |-> BoopParameter, args |-> <<OscBoolFalse>>]

\* the event loop over the change of the date
NextDay ==
    \/ \E ok1, ok2 \in BOOLEAN : ListenerRecv(BoopTrue, ok1, ok2)
    \/ \E ok1, ok2 \in BOOLEAN : ListenerRecv(BoopFalse, ok1, ok2)
    \/ \E res \in PublishResults : Publish(res)
    \/ \E ok \in BOOLEAN : Notify(ok)
    \/ Tick
    \/ Midnight

DaySpec == Init /\ [][NextDay]_vars

\* activity events, the clearing loop and its clear tasks
NextClear ==
    \/ \E ok1, ok2 \in BOOLEAN : ListenerRecv(BoopTrue, ok1, ok2)
    \/ \E res \in PublishResults : Publish(res)
    \/ \E ok \in BOOLEAN : Notify(ok)
    \/ Debounce
    \/ TaskWake
    \/ \E res \in PublishResults : TaskSend(res)
    \/ \E gen \in orphans, res \in PublishResults : OrphanSend(gen, res)
    \/ \E gen \in orphans : OrphanDrop(gen)
    \/ Tick
    \/ Idle

ClearSpec == Init /\ [][NextClear]_vars

\* the state of a run without boops.toml in which k events were counted and
\* notified and the clearing loop has taken none of their signals yet, with the
\* channel one signal short of full or full; counted counts from here on
InitBacklog ==
    /\ InitRest
    /\ text_suffixes = default_text_suffixes
    /\ file = NoFile
    /\ clear_tx \in {ChannelCapacity - 1, ChannelCapacity}
    /\ storage = [BoopStorageDefault EXCEPT !.total_boops = clear_tx,
                                            !.today_boops = clear_tx,
                                            !.today_boops_record = clear_tx]
    /\ n_pub = clear_tx
    /\ pub_result = "sent"

\* activity events and the clearing loop taking signals, over a few seconds
NextBacklog ==
    \/ \E ok1, ok2 \in BOOLEAN : ListenerRecv(BoopTrue, ok1, ok2)
    \/ \E res \in PublishResults : Publish(res)
    \/ \E ok \in BOOLEAN : Notify(ok)
    \/ Debounce
    \/ Tick

\* select! polls the event loop and the clearing loop whenever one of them
\* can make progress
BacklogFairness ==
    /\ WF_vars(\E res \in PublishResults : Publish(res))
    /\ WF_vars(\E ok \in BOOLEAN : Notify(ok))
    /\ WF_vars(Debounce)

BacklogSpec == InitBacklog /\ [][NextBacklog]_vars /\ BacklogFairness

\* the same with cancellation and the end of the process
NextLive ==
    \/ NextClear
    \/ Cancel
    \/ \E ok \in BOOLEAN : Stop(ok)
    \/ Exit

\* the runtime polls every task that can make progress, a clear task on a
\* worker thread and the event loop with the clearing loop in select!; time
\* passes; main returns once run has returned
LiveFairness ==
    /\ WF_vars(\E res \in PublishResults : Publish(res))
    /\ WF_vars(\E ok \in BOOLEAN : Notify(ok))
    /\ WF_vars(Debounce)
    /\ WF_vars(TaskWake)
    /\ WF_vars(\E res \in PublishResults : TaskSend(res))
    /\ WF_vars(\E ok \in BOOLEAN : Stop(ok))
    /\ WF_vars(Exit)
    /\ WF_vars(Idle)

LiveSpec == Init /\ [][NextLive]_vars /\ LiveFairness

\* the event loop and the responder from start to the end of the process
NextShutdown ==
    \/ \E pkt \in Datagrams, ok1, ok2 \in BOOLEAN : ListenerRecv(pkt, ok1, ok2)
    \/ ListenerRecvError
    \/ \E res \in PublishResults : Publish(res)
    \/ \E ok \in BOOLEAN : Notify(ok)
    \/ \E kind \in {"query", "unparseable"} : MdnsRecv(kind)
    \/ MdnsRecvError
    \/ Cancel
    \/ \E ok \in BOOLEAN : Stop(ok)
    \/ Exit

\* select! takes the cancelled() branch when the token is cancelled and the
\* other branches wait; main returns once run has returned
ShutdownFairness ==
    /\ WF_vars(\E ok \in BOOLEAN : Stop(ok))
    /\ WF_vars(Exit)

ShutdownSpec == Init /\ [][NextShutdown]_vars /\ ShutdownFairness

\* a call of generate_text_suffix, with any count
LookupSuffix(n) ==
    /\ number' = n
    /\ found' = GenerateTextSuffix(n)

\* thresholds and texts of configured rules
RuleValues == {5, 9, 12, 69}

RuleTexts == {"a", "b"}

\* rule lists as deserialize_text_suffixes leaves them: sorted by value
SortedRuleLists ==
    LET rules == {TextSuffix(v, m) : v \in RuleValues, m \in RuleTexts}
        lists == UNION {[1..k -> rules] : k \in 0..MaxRules}
    IN  {l \in lists : \A i, j \in 1..Len(l) : i < j => l[i].value <= l[j].value}

\* a config file with its own text_suffixes
InitSuffixes == InitRun /\ file = NoFile /\ text_suffixes \in SortedRuleLists

\* generate_text_suffix on any count
NextSuffixes ==
    \E n \in 0..MaxCount :
        LookupSuffix(n) /\ UNCHANGED <<world_vars, date, loop_vars, cancelled, exited,
                                       task_vars, mdns_vars, obs_vars, wire_vars,
                                       text_suffixes, built, oscjson>>

SuffixSpec == InitSuffixes /\ [][NextSuffixes]_vars

\* a rule is built from a value and a text of the configuration
BuildRule(source, value, message) ==
    /\ built' = BuildTextSuffix(source, value, message)
    /\ UNCHANGED <<world_vars, date, loop_vars, cancelled, exited, task_vars,
                   mdns_vars, obs_vars, wire_vars, text_suffixes, number, found,
                   oscjson>>

\* rules built from every value validation accepts, up to MaxCount
NextRules ==
    \E source \in RuleSources, value \in 0..MaxCount, message \in RuleTexts :
        BuildRule(source, value, message)

InitRules == Init /\ file = NoFile

RuleSpec == InitRules /\ [][NextRules]_vars

\* a query of more questions than the question buffer holds
LongQuery == [i \in 1..5 |-> IF i = 3 THEN OtherService ELSE InstanceHost]

\* what recv_from can hand to handle_query
MdnsDatagrams ==
    {[NoQuery EXCEPT !.kind = "malformed"]}
    \cup [kind : {"message"},
          questions : UNION {[1..k -> QuestionNames] : k \in 0..MaxQuestions}
                          \cup {LongQuery},
          an : 0..MaxAnswers, ns : 0..1, ar : 0..1, accepted : BOOLEAN]

\* the responder on its own, with replies that msg.write has written
NextMdns ==
    \/ \E data \in MdnsDatagrams : HandleQuery(data)
    \/ ParseAgain
    \/ \E ok \in BOOLEAN : SendReply(TRUE, ok)
    \/ MdnsRecvError

\* the responder starts in run, before its first recv_from
InitMdns == Init /\ file = NoFile

MdnsSpec == InitMdns /\ [][NextMdns]_vars

\* the parse loop has no await and runs on; a send_to that was started returns
MdnsFairness ==
    /\ WF_vars(ParseAgain)
    /\ WF_vars(\E ok \in BOOLEAN : SendReply(TRUE, ok))

MdnsLiveSpec == InitMdns /\ [][NextMdns]_vars /\ MdnsFairness

\* queries without records in the other sections
PlainQueries ==
    {d \in MdnsDatagrams :
        Len(d.questions) <= MaxQuestions /\ d.an = 0 /\ d.ns = 0 /\ d.ar = 0}

\* the responder answering plain queries, whatever msg.write and send_to return
NextReplies ==
    \/ \E data \in PlainQueries : HandleQuery(data)
    \/ ParseAgain
    \/ \E wrote, ok \in BOOLEAN : SendReply(wrote, ok)
    \/ MdnsRecvError

ReplySpec == InitMdns /\ [][NextReplies]_vars

\* the responder and the OSCQuery server that announce has started
NextAnnounce ==
    \/ NextReplies
    \/ OscjsonShutdown

AnnounceSpec == InitMdns /\ [][NextAnnounce]_vars

\* queries of at most one question and no other record
ShortQueries ==
    {d \in MdnsDatagrams :
        Len(d.questions) <= 1 /\ d.an = 0 /\ d.ns = 0 /\ d.ar = 0}

\* the event loop handling activity events next to the responder task
NextBoth ==
    \/ \E ok1, ok2 \in BOOLEAN : ListenerRecv(BoopTrue, ok1, ok2)
    \/ \E res \in PublishResults : Publish(res)
    \/ \E ok \in BOOLEAN : Notify(ok)
    \/ \E data \in ShortQueries : HandleQuery(data)
    \/ ParseAgain
    \/ \E wrote, ok \in BOOLEAN : SendReply(wrote, ok)
    \/ MdnsRecvError
    \/ Tick

BothSpec == InitMdns /\ [][NextBoth]_vars

(* ------------------------------ properties ----------------------------- *)

\* the datagrams the activity branch of handle_message is for
IsActivityEvent(pkt) ==
    /\ pkt.kind = "message"
    /\ EndsWith(pkt.addr, boop_address)
    /\ pkt.args # <<>>
    /\ pkt.args[1] # OscBoolFalse

\* one of the two counters of s has a special-case suffix
HasSpecialSuffix(s) ==
    GenerateTextSuffix(s.today_boops).some \/ GenerateTextSuffix(s.total_boops).some

\* C1: a notification without special-case suffix is transmitted only when
\* strictly more than the cooldown of 2 seconds has passed since the previous
\* transmission, and every activity event adds one to the lifetime counter and
\* one to the (possibly just reset) counter of the day, sent or not.
C1_CooldownAndCounting ==
    /\ [](\A pkt \in Datagrams, ok1, ok2 \in BOOLEAN :
            IsActivityEvent(pkt) =>
                LET r == HandlePacket(pkt, World, ok1, ok2)
                    today == IF date # storage.last_reset THEN 0 ELSE storage.today_boops
                IN  /\ r.outcome \in {"absorbed", "send"}
                    /\ r.w.storage.total_boops = storage.total_boops + 1
                    /\ r.w.storage.today_boops = today + 1
                    /\ (r.outcome = "send" /\ ~HasSpecialSuffix(r.w.storage))
                          => last_message > Cooldown)
    /\ [][ /\ (evPc = "publish" /\ evPc' = "notify" /\ ~HasSpecialSuffix(storage))
                 => last_message > Cooldown
           /\ counted' # counted
                 => /\ counted' = counted + 1
                    /\ storage'.total_boops = storage.total_boops + 1 ]_vars

\* an activity event arrived within the cooldown of a transmitted notification:
\* it was absorbed and counted
C1_Witness ==
    /\ outcome = "absorbed"
    /\ pub_result = "sent"
    /\ last_message <= Cooldown
    /\ counted >= 2
    /\ storage.total_boops = file.total_boops + 1

C3_OneClearAfterSecond ==
    (n_pub = 2 /\ pub_result = "sent" /\ close_pair)
        => (n_clear <= 1 /\ ~early_clear)

\* the clear tasks that can still transmit: the held one and the aborted ones
\* a worker thread is polling
AliveClearTasks ==
    (IF task.st \in {"sleep", "run"} THEN {task.gen} ELSE {}) \cup orphans

\* C4: at most one delayed-clear task is alive in every reachable state.
C4_AtMostOneClearTask == Cardinality(AliveClearTasks) <= 1

\* C5: no clear armed by an older notification is transmitted after a newer
\* notification has been transmitted.
C5_NoStaleClear == ~stale_clear

\* C6: every transmitted notification is followed by another notification or,
\* eventually, by the attempt to transmit a clear.
C6_ClearFollows ==
    \A k \in 1..MaxBoops :
        (n_pub = k /\ pub_result = "sent") ~> (clear_tried \/ n_pub > k)

\* C6, amended: every transmitted notification is followed by another
\* notification, by the attempt to transmit a clear, or by the return of run
\* on cancellation.
C6_ClearFollowsUnlessStopped ==
    \A k \in 1..MaxBoops :
        (n_pub = k /\ pub_result = "sent")
            ~> (clear_tried \/ n_pub > k \/ evPc = "done")

\* the clear of the latest notification went out while the event loop runs
C6_Witness ==
    /\ pub_result = "sent"
    /\ clear_tried
    /\ n_clear = 1
    /\ ~stale_clear
    /\ task.st = "done"
    /\ task.gen = n_pub
    /\ evPc = "recv"
    /\ ~cancelled

\* C7: when run has returned it has saved the counters after the last packet
\* it handled: a write was attempted, and a write that succeeded left the
\* file with the final counters.
C7_FinalFlush ==
    evPc = "done" =>
        /\ last_write # "none"
        /\ last_write = "ok" => file = Serialize(storage)

\* run returned while a handler was waiting in send_message, after an event
\* was counted, and the file holds the count
C7_Witness ==
    /\ evPc = "done"
    /\ pending # NoMessage
    /\ counted >= 1
    /\ last_write = "ok"
    /\ file.total_boops = storage.total_boops
    /\ file.total_boops > 0

\* C8: when recv_from reports a socket error the event loop terminates.
C8_RecvErrorTerminates == outcome = "recv_error" => evPc = "done"

C10_DecodeErrorIsSkipped ==
    /\ [](\A pkt \in Datagrams, ok1, ok2 \in BOOLEAN :
            pkt.kind = "undecodable" =>
                HandlePacket(pkt, World, ok1, ok2)
                    = [w |-> World, outcome |-> "decode_error", message |-> NoMessage])
    /\ [][ (outcome' = "decode_error" /\ outcome # "decode_error")
              => /\ evPc = "recv" /\ evPc' = "recv"
                 /\ UNCHANGED <<storage, file, last_write, last_message, clear_tx,
                                pending, task, orphans, counted, n_pub, pub_result,
                                n_clear>> ]_vars

\* a datagram failed to decode after events were counted and a notification
\* was sent, and the listener loop waits for the next one
C10_Witness ==
    /\ outcome = "decode_error"
    /\ evPc = "recv"
    /\ counted >= 1
    /\ n_pub >= 1
    /\ clear_tx >= 1

\* C11: a decoded message whose address neither ends with the boop suffix nor
\* is "/avatar/change" leaves counters, cooldown timestamp, debounce channel
\* and clear tasks alone and transmits nothing; it may only save the storage,
\* and only when it is time to save.
C11_OtherAddressOnlySaves ==
    /\ [](\A pkt \in Datagrams, ok1, ok2 \in BOOLEAN :
            (/\ pkt.kind = "message"
             /\ ~EndsWith(pkt.addr, boop_address)
             /\ pkt.addr # AvatarChange) =>
                LET r == HandlePacket(pkt, World, ok1, ok2)
                IN  /\ r.outcome = "ignored"
                    /\ r.message = NoMessage
                    /\ Serialize(r.w.storage) = Serialize(storage)
                    /\ r.w # World => (TimeToSave(storage) /\ r.w = Save(World, ok1)))
    /\ [][ (outcome' = "ignored" /\ outcome # "ignored")
              => /\ evPc = "recv" /\ evPc' = "recv"
                 /\ Serialize(storage') = Serialize(storage)
                 /\ UNCHANGED <<last_message, clear_tx, pending, task, orphans,
                                counted, n_pub, pub_result, n_clear>> ]_vars

\* a message for another address was handled after events were counted and a
\* notification sent, when it was not time to save
C11_Witness ==
    /\ outcome = "ignored"
    /\ evPc = "recv"
    /\ counted >= 1
    /\ n_pub >= 1
    /\ storage.last_save > 0
    /\ ~TimeToSave(storage)

\* C12: whatever a decoded message is, when it is time to save as the message
\* is handled, the storage is saved before the next datagram is received (with
\* writes that succeed, it is no longer time to save afterwards).
C12_SaveWhateverTheMessage ==
    \A pkt \in Datagrams :
        (pkt.kind = "message" /\ evPc = "recv" /\ TimeToSave(storage)) =>
            ~TimeToSave(HandlePacket(pkt, World, TRUE, TRUE).w.storage)

\* C13: a datagram adds exactly one to the counters if and only if it is a
\* message whose address ends with the boop suffix, with at least one
\* argument, the first not Bool(false); a message for the boop suffix without
\* arguments or with Bool(false) counts nothing and transmits nothing.
C13_CountedIffActivity ==
    /\ [](\A pkt \in Datagrams, ok1, ok2 \in BOOLEAN :
            LET r == HandlePacket(pkt, World, ok1, ok2)
                today == IF date # storage.last_reset THEN 0 ELSE storage.today_boops
            IN  IF IsActivityEvent(pkt)
                THEN /\ r.w.storage.total_boops = storage.total_boops + 1
                     /\ r.w.storage.today_boops = today + 1
                ELSE /\ r.w.storage.total_boops = storage.total_boops
                     /\ r.w.storage.today_boops = storage.today_boops
                     /\ r.outcome # "send"
                     /\ r.message = NoMessage)
    /\ [][ /\ storage'.total_boops # storage.total_boops
                 => /\ storage'.total_boops = storage.total_boops + 1
                    /\ counted' = counted + 1
           /\ outcome' \in {"left", "ignored"}
                 => /\ UNCHANGED <<counted, n_pub, pending>>
                    /\ storage'.total_boops = storage.total_boops
                    /\ storage'.today_boops = storage.today_boops ]_vars

\* the contact left the receiver, Bool(false), after an event was counted and
\* its notification sent: nothing was counted for it
C13_Witness ==
    /\ outcome = "left"
    /\ evPc = "recv"
    /\ pending = NoMessage
    /\ counted = 1
    /\ n_pub = 1
    /\ storage.total_boops = file.total_boops

\* the number of decimal digits of v
DecimalDigits(v) == CHOOSE d \in 1..5 : 10 ^ (d - 1) <= v /\ v < 10 ^ d

\* the rules of the list that match n: threshold v <= n and n mod 10^digits(v) = v
MatchingRules(n) ==
    {i \in 1..Len(text_suffixes) :
        /\ text_suffixes[i].value <= n
        /\ n % (10 ^ DecimalDigits(text_suffixes[i].value)) = text_suffixes[i].value}

\* C14: on a rule list sorted by threshold the lookup returns the text of the
\* first rule in list order that matches the count, and none when no rule
\* matches; the stop at a threshold above the count hides no matching rule.
C14_FirstMatchingRule ==
    IF MatchingRules(number) = {}
    THEN found = NoSuffix
    ELSE LET first == CHOOSE i \in MatchingRules(number) :
                          \A j \in MatchingRules(number) : i <= j
         IN  found = [some |-> TRUE, text |-> text_suffixes[first].message]

\* 112 was looked up in the rules 5 and 12: the first rule was skipped and the
\* second matched on the last two digits
C14_Witness ==
    /\ number = 112
    /\ Len(text_suffixes) = 2
    /\ text_suffixes[1] = TextSuffix(5, "a")
    /\ text_suffixes[2] = TextSuffix(12, "b")
    /\ found = [some |-> TRUE, text |-> "b"]

\* C15: a datagram with more answer records than the one slot of the answer
\* buffer is parsed with exactly one grow-and-retry cycle: the first call of
\* Message::read reports the answer section with the number of its records,
\* the second call succeeds with a buffer of exactly that many records.
C15_OneGrowCycle ==
    (mq.kind = "message" /\ mq.an > InitialCaps.Answer) =>
        /\ MessageRead(mq, InitialCaps)
              = [kind |-> "space", section |-> "Answer", tried_to_write |-> mq.an]
        /\ parse.result = "ok"
        /\ parse.reads = 2
        /\ parse.caps = [InitialCaps EXCEPT !.Answer = mq.an]

\* C15, amended: the same for a datagram whose other sections fit the buffers
\* handle_query starts with (at most 4 questions, no authority record, no
\* additional record).
C15_OneGrowCycleWhenOthersFit ==
    (/\ mq.kind = "message"
     /\ mq.an > InitialCaps.Answer
     /\ Len(mq.questions) <= InitialCaps.Question
     /\ mq.ns <= InitialCaps.Authority
     /\ mq.ar <= InitialCaps.Additional) =>
        /\ MessageRead(mq, InitialCaps)
              = [kind |-> "space", section |-> "Answer", tried_to_write |-> mq.an]
        /\ parse.result = "ok"
        /\ parse.reads = 2
        /\ parse.caps = [InitialCaps EXCEPT !.Answer = mq.an]

\* a query with one question and three answer records was parsed in two calls
C15_Witness ==
    /\ mq.kind = "message"
    /\ Len(mq.questions) = 1
    /\ mq.an = 3 /\ mq.ns = 0 /\ mq.ar = 0
    /\ parse.result = "ok"
    /\ parse.reads = 2
    /\ parse.caps.Answer = 3

\* C16: for every received datagram the parse loop of handle_query
\* terminates, so the responder is always back at receiving the next datagram
\* (or has left its loop on a receive error).
C16_ParseLoopTerminates == []<>(mdnsPc \in {"recv", "stopped"})

\* C17: a datagram whose parsing fails for another reason than buffer space is
\* dropped: Message::read is called on it once, no reply is sent for it and
\* the responder is back at receiving the next datagram.
C17_OtherFailureDropsDatagram ==
    mq.kind = "malformed" =>
        /\ parse.reads = 1
        /\ replies = <<>>
        /\ mdnsPc \in {"recv", "stopped"}

\* the entry of name in store holds at least one record
HasRecords(store, name) ==
    \E key \in DOMAIN store : key = name /\ Len(store[key]) >= 1

\* C18: a question whose name is no key of known_records, or whose entry is
\* empty, gets no reply: every reply handed to send_to is for a question whose
\* name has an entry with records, a query that was handled has no reply for
\* any other question, and lookup_answer returns None for such a name
\* whatever the store holds.
C18_ReplyOnlyForStoredName ==
    /\ \A k \in 1..Len(replies) :
           /\ replies[k].name = mq.questions[replies[k].question]
           /\ HasRecords(known_records, replies[k].name)
    /\ \A store \in RecordStores : \A name \in QuestionNames :
           ~HasRecords(store, name) => ~LookupAnswer(store, name, TRUE).some

\* a query asked for the service type and for another service: it was handled
\* to its end with one reply, the one for the service type
C18_Witness ==
    /\ mdnsPc = "recv"
    /\ mq.kind = "message" /\ mq.accepted
    /\ mq.questions = <<OtherService, ServiceType>>
    /\ Len(replies) = 1
    /\ replies[1].question = 2

\* the sections C19 expects of a reply built from the records entry
SplitsEntry(reply, entry) ==
    /\ reply.some
    /\ Len(reply.answers) = 1
    /\ reply.answers[1] = entry[1]
    /\ Len(reply.additional) = Len(entry) - 1
    /\ \A j \in 1..Len(reply.additional) : reply.additional[j] = entry[j + 1]

\* C19: the reply for a question whose entry holds n >= 1 records has the
\* first stored record as its answer section and the other n-1 records, in
\* stored order, as its additional section; one reply is built per such
\* question. Checked for the replies of the running responder and for
\* lookup_answer on every store, the one with a three record entry included.
C19_FirstAnswerRestAdditional ==
    /\ \A k \in 1..Len(replies) :
           /\ SplitsEntry(replies[k].reply, known_records[replies[k].name])
           /\ \A l \in 1..Len(replies) :
                  replies[l].question = replies[k].question => l = k
    /\ \A store \in RecordStores : \A name \in DOMAIN store :
           HasRecords(store, name) =>
               SplitsEntry(LookupAnswer(store, name, TRUE), store[name])

\* the reply to a question for the service type went out with the PTR record
\* as answer and the TXT, SRV and A records as additional records
C19_Witness ==
    /\ Len(replies) >= 1
    /\ replies[1].name = ServiceType
    /\ replies[1].reply.answers = <<"PTR">>
    /\ replies[1].reply.additional = <<"TXT", "SRV", "A">>

\* the questions of the handled query whose name has an entry with records
AnswerableQuestions ==
    {i \in 1..Len(mq.questions) : HasRecords(known_records, mq.questions[i])}

\* C20: the questions of one query are resolved independently. While replies
\* are being sent, one send was attempted for every answerable question before
\* the current one, failed or not; once the query is handled the number of
\* attempts is the number of answerable questions; and no send_to, failed or
\* not, ends the responder loop.
C20_EachQuestionAttempted ==
    /\ [](mdnsPc = "send" =>
             /\ qi \in AnswerableQuestions
             /\ {replies[k].question : k \in 1..Len(replies)}
                    = {i \in AnswerableQuestions : i < qi})
    /\ []((mdnsPc \in {"recv", "stopped"} /\ mq.kind = "message" /\ mq.accepted) =>
             /\ Len(replies) = Cardinality(AnswerableQuestions)
             /\ {replies[k].question : k \in 1..Len(replies)} = AnswerableQuestions)
    /\ [][mdnsPc = "send" => mdnsPc' \in {"send", "recv"}]_vars

\* a query with two answerable questions was handled to its end: the send of
\* the first reply failed, the second reply was sent
C20_Witness ==
    /\ mdnsPc = "recv"
    /\ mq.kind = "message" /\ mq.accepted
    /\ Len(mq.questions) = 2
    /\ Len(replies) = 2
    /\ ~replies[1].sent
    /\ replies[2].sent

\* C21: the cooldown timestamp last_message is written only when a
\* notification went on the wire: a step that handles a datagram without
\* publishing leaves it alone (its age only grows), and so does a step in
\* which publish_chatbox fails to encode or to send.
C21_LastSentOnlyOnSuccess ==
    [][ /\ n_pub' = n_pub => last_message' >= last_message
        /\ (n_pub' # n_pub /\ pub_result' # "sent") => last_message' = last_message ]_vars

\* C22: cancellation ends run only while listener_loop waits in recv_from: a
\* datagram whose handling has begun is handled to its end, so no notification
\* is left without the signal to the clearing loop.
C22_CancelOnlyInReceive ==
    /\ [][(evPc # "done" /\ evPc' = "done") => evPc = "recv"]_vars
    /\ [](evPc = "done" => n_pub = clear_tx + task.gen)

\* C23: a message on /avatar/change, with or without arguments, flushes the
\* counters to boops.toml (when the write succeeds), changes no counter and
\* sends no notification.
C23_AvatarChangeFlushes ==
    \A args \in ArgLists :
        LET r == HandlePacket([kind |-> "message", addr |-> AvatarChange, args |-> args],
                              World, TRUE, TRUE)
        IN  /\ r.w.file = Serialize(storage)
            /\ r.w.last_write = "ok"
            /\ r.w.storage.total_boops = storage.total_boops
            /\ r.w.storage.today_boops = storage.today_boops
            /\ r.outcome # "send"

\* C24: a receive error of the responder stops its loop and nothing else: the
\* step changes no state of the event loop or of the storage and ends no
\* process, a stopped responder sends no further reply, and the event loop
\* goes on receiving and handling datagrams.
C24_ResponderStopsAlone ==
    /\ [][(mdnsPc # "stopped" /\ mdnsPc' = "stopped") =>
             /\ mdnsPc = "recv"
             /\ UNCHANGED <<world_vars, loop_vars, cancelled, exited, task_vars,
                            obs_vars, replies>>]_vars
    /\ [][mdnsPc = "stopped" => (mdnsPc' = "stopped" /\ replies' = replies)]_vars
    /\ [](mdnsPc = "stopped" => (~exited /\ evPc # "done"))
    /\ []((mdnsPc = "stopped" /\ evPc = "recv" /\ counted < MaxBoops) =>
             ENABLED (\E ok1, ok2 \in BOOLEAN : ListenerRecv(BoopTrue, ok1, ok2)))

\* the responder has stopped after a reply, and the event loop is sending
\* the notification of an activity event
C24_Witness ==
    /\ mdnsPc = "stopped"
    /\ replies # <<>>
    /\ evPc = "publish"
    /\ counted = MaxBoops

\* C25: the count of the day is reset exactly when an activity event is
\* counted on a date other than that of the last reset. The reset copies the
\* count of the day to yesterday's, the event then counts as the first of the
\* day and adds one to the lifetime count, the date of the reset is recorded
\* and the storage is saved as it is after the reset; an event on the date of
\* the last reset resets nothing, and no other datagram does.
C25_ResetOnNewDate ==
    /\ [](\A pkt \in Datagrams, ok1, ok2 \in BOOLEAN :
            LET r == HandlePacket(pkt, World, ok1, ok2)
            IN  IF IsActivityEvent(pkt) /\ date # storage.last_reset
                THEN /\ r.w.storage.yesterday_boops = storage.today_boops
                     /\ r.w.storage.today_boops = 1
                     /\ r.w.storage.total_boops = storage.total_boops + 1
                     /\ r.w.storage.last_reset = date
                     /\ r.w.last_write # "none"
                     /\ ok1 => r.w.file =
                                 [present |-> TRUE,
                                  total_boops |-> storage.total_boops,
                                  today_boops |-> 0,
                                  today_boops_record |-> storage.today_boops_record,
                                  yesterday_boops |-> storage.today_boops,
                                  last_reset |-> date]
                ELSE /\ r.w.storage.yesterday_boops = storage.yesterday_boops
                     /\ r.w.storage.last_reset = storage.last_reset
                     /\ IsActivityEvent(pkt) =>
                            r.w.storage.today_boops = storage.today_boops + 1
                     /\ ~IsActivityEvent(pkt) =>
                            r.w.storage.today_boops = storage.today_boops)
    /\ [][storage'.last_reset # storage.last_reset =>
             /\ date # storage.last_reset
             /\ counted' = counted + 1
             /\ storage'.last_reset = date
             /\ storage'.today_boops = 1
             /\ storage'.yesterday_boops = storage.today_boops]_vars

\* an event was counted, midnight passed, and the next event reset the day:
\* yesterday holds the one event of the day before, the file the reset
C25_Witness ==
    /\ date = StartDate + 1
    /\ counted = 2
    /\ storage.last_reset = date
    /\ storage.today_boops = 1
    /\ storage.yesterday_boops = 1
    /\ storage.total_boops = 2
    /\ file.present
    /\ file.last_reset = date
    /\ file.today_boops = 0

\* C26: for every value validation accepts (0 included), building a rule
\* succeeds with divisor = 10^(number of decimal digits of the value), the
\* same by TextSuffix::new and by deserialization.
C26_DivisorOfEveryValue ==
    built.source # "none" =>
        /\ built.kind = "ok"
        /\ built.divisor = 10 ^ DecimalDigits(built.value)
        /\ \A source \in RuleSources :
              BuildTextSuffix(source, built.value, built.message).divisor = built.divisor

\* C27: the event loop never waits forever in tx.send: also with a full
\* channel the signal is put and listener_loop is back at recv_from, and every
\* signal queued in the channel is taken by the clearing loop.
C27_SignalAlwaysCompletes ==
    /\ (evPc = "notify") ~> (evPc = "recv")
    /\ (clear_tx > 0) ~> (clear_tx = 0)

\* send_message waits in tx.send with the channel full
C27_Witness ==
    /\ evPc = "notify"
    /\ clear_tx = ChannelCapacity

\* C28: whenever handle_query has returned, the connection handle it accepted
\* for the datagram has been drained: no handle is left undrained, on any path.
C28_HandlesDrained == mdnsPc \in {"recv", "stopped"} => undrained = 0

\* C29: a reply datagram handed to send_to is always the serialization of the
\* reply message, never a buffer msg.write has failed to write.
C29_OnlyWrittenReplies == \A k \in 1..Len(replies) : replies[k].buf = "message"

\* C30: as long as the responder runs and answers queries for the service, the
\* OSCQuery server it advertises is serving.
C30_ServerServesWhileAdvertised == mdnsPc \in {"recv", "send"} => oscjson = "serving"

\* C31: a failed write of boops.toml leaves last_save as it was, so that it
\* stays time to save and the next handled message attempts the flush again;
\* a write that succeeds sets last_save to now, and while no more than 5
\* minutes have passed since, a message makes no periodic flush.
C31_FailedWriteIsRetried ==
    /\ Save(World, FALSE).storage.last_save = storage.last_save
    /\ TimeToSave(storage) => TimeToSave(Save(World, FALSE).storage)
    /\ Save(World, TRUE).storage.last_save = 0
    /\ \A pkt \in Datagrams :
          (pkt.kind = "message" /\ evPc = "recv") =>
              LET r == HandlePacket(pkt, World, TRUE, TRUE)
              IN  /\ (last_write = "failed" /\ TimeToSave(storage)) =>
                         (r.w.last_write = "ok" /\ r.w.storage.last_save = 0)
                  /\ (storage.last_save <= SaveInterval /\ r.outcome = "ignored") =>
                         r.w = World

====
